---- MODULE Spec2Model ----
(***************************************************************************)
(* A model of the jupyter-terminal client (src/main.go).                   *)
(*                                                                         *)
(* Two activities share one websocket connection: the main line of         *)
(* execution (main, CreateTerminal, Connect, SendCommand,                  *)
(* InteractiveShell, Close) and the goroutine running ReadMessages.        *)
(*                                                                         *)
(* Text is a sequence of one-character strings.  A websocket frame is the  *)
(* JSON document it carries, a record [t, v] (t the JSON type); Unmarshal  *)
(* and Marshal are modelled by what encoding/json does with it.            *)
(*                                                                         *)
(* output holds what ReadMessages prints (fmt.Print at main.go:147); the   *)
(* banner, prompt and "Goodbye!" lines that main prints are not modelled.  *)
(***************************************************************************)
EXTENDS Integers, Sequences, FiniteSets, TLC

(***************************************************************************)
(* Bounds of the model.                                                    *)
(***************************************************************************)
\* frames the connection delivers to ReadMessages in a run of Spec
MaxFrames == 1
\* frames the connection delivers to ReadMessages in a run of SpecRelay
MaxRelayFrames == 3
\* lines the user types on standard input
MaxLines == 2

(***************************************************************************)
(* Program constants.                                                      *)
(***************************************************************************)
\* net/http status codes named at main.go:59
StatusOK == 200
StatusCreated == 201
\* websocket close codes named at main.go:123
CloseGoingAway == 1001
CloseAbnormalClosure == 1006

(***************************************************************************)
(* Text.                                                                   *)
(***************************************************************************)
NL == "\n"
\* a byte that is not valid UTF-8, and U+FFFD that encoding/json writes for it
BadByte == "<0xff>"
ReplacementChar == "<U+FFFD>"

STDIN == <<"s", "t", "d", "i", "n">>
STDOUT == <<"s", "t", "d", "o", "u", "t">>
SETUP == <<"s", "e", "t", "u", "p">>
DISCONNECT == <<"d", "i", "s", "c", "o", "n", "n", "e", "c", "t">>
EXIT == <<"e", "x", "i", "t">>

\* strings.HasSuffix
HasSuffix(s, suffix) ==
    /\ Len(s) >= Len(suffix)
    /\ SubSeq(s, Len(s) - Len(suffix) + 1, Len(s)) = suffix

\* Join with the separator left out
RECURSIVE JoinNoSep(_, _)
JoinNoSep(elems, sep) ==
    IF elems = <<>> THEN <<>> ELSE elems[1] \o JoinNoSep(Tail(elems), sep)

\* strings.Join
RECURSIVE Join(_, _)
Join(elems, sep) ==
    IF elems = <<>> THEN <<>>
    ELSE IF Len(elems) = 1 THEN elems[1]
    ELSE elems[1] \o sep \o Join(Tail(elems), sep)

(***************************************************************************)
(* JSON documents and encoding/json.                                       *)
(***************************************************************************)
JStr(s) == [t |-> "string", v |-> s]
JNum(n) == [t |-> "number", v |-> <<n>>]
JArr(elems) == [t |-> "array", v |-> elems]
JNull == [t |-> "null", v |-> <<>>]
JObj == [t |-> "object", v |-> <<>>]
\* bytes that are not a JSON document
Garbage == [t |-> "garbage", v |-> <<>>]

\* json.Unmarshal(message, &msg) with msg a []interface{}: an array decodes
\* to its elements, null to the nil slice, anything else is an error
Unmarshal(data) ==
    IF data.t = "array" THEN [err |-> FALSE, msg |-> data.v]
    ELSE IF data.t = "null" THEN [err |-> FALSE, msg |-> <<>>]
    ELSE [err |-> TRUE, msg |-> <<>>]

\* encoding/json writes U+FFFD for every byte of a string that is not UTF-8
ToValidUTF8(s) ==
    [i \in 1..Len(s) |-> IF s[i] = BadByte THEN ReplacementChar ELSE s[i]]

\* json.Marshal of a Message whose elements are strings: never an error
Marshal(msg) ==
    [err |-> FALSE,
     data |-> JArr([i \in 1..Len(msg) |-> JStr(ToValidUTF8(msg[i]))])]

(***************************************************************************)
(* What the environment can supply.                                        *)
(***************************************************************************)
\* -url: the default server URL and an unparsable one
ServerURLs == {"http://localhost:8888", "%zz"}
\* -term: absent, or an existing terminal
TermIDs == {<<>>, <<"7">>}
\* trailing positional arguments
ArgLists ==
    {<<>>,
     << <<"g", "i", "t">>, <<"s", "t", "a", "t", "u", "s">> >>,
     << <<"l", "s", NL>> >>,
     << <<"l", BadByte>> >>}
\* lines of standard input (bufio.Scanner strips the line terminator)
Lines == {<<"l", "s">>, EXIT, <<>>}

\* responses to POST /api/terminals; status 0 stands for a transport error
Bodies ==
    {Garbage,
     [t |-> "object", v |-> << <<"name", JStr(<<"1">>)>> >>],
     [t |-> "object", v |-> << <<"name", JStr(<<>>)>> >>],
     [t |-> "object", v |-> << <<"name", JNum(1)>> >>],
     JObj}
HTTPResponses ==
    [status : {StatusOK, StatusCreated, 500}, body : Bodies]
        \cup [status : {0, 404}, body : {Garbage}]

\* frames the server may send
Frames ==
    {JArr(<<JStr(SETUP)>>),
     JArr(<<JStr(SETUP), JObj>>),
     JArr(<<JStr(STDOUT), JStr(<<"a", NL>>)>>),
     JArr(<<JStr(STDOUT), JStr(<<"b", NL>>)>>),
     JArr(<<JStr(STDOUT), JNum(1)>>),
     JArr(<<JStr(STDOUT)>>),
     JArr(<<JStr(DISCONNECT)>>),
     JArr(<<JStr(DISCONNECT), JNum(1)>>),
     JArr(<<JStr(STDIN), JStr(<<"a", NL>>)>>),
     JArr(<<JNum(1), JStr(<<"a", NL>>)>>),
     JNull,
     JObj,
     Garbage}

\* errors of conn.ReadMessage: a close frame with its code (1006 is what the
\* library reports when the peer vanishes), or a network error (code 0),
\* which is also what a read on a locally closed connection returns
NoErr == [t |-> "none", code |-> 0]
NetErr == [t |-> "net", code |-> 0]
CloseErr(code) == [t |-> "close", code |-> code]
ReadErrors ==
    {CloseErr(1000), CloseErr(CloseGoingAway), CloseErr(CloseAbnormalClosure),
     NetErr}

VARIABLES
    serverURL, termID, args,  \* the command line (main.go:225-230)
    terminalID, conn,         \* JupyterClient fields
    connOpen,                 \* whether the websocket is still open locally
    mpc, exitCode,            \* main's position and the process exit code
    rpc,                      \* the ReadMessages goroutine's position
    scans,                    \* calls of scanner.Scan made
    typed,                    \* what each call of scanner.Scan found
    sends,                    \* calls of SendCommand, with the frame written
    closes,                   \* calls of conn.Close made
    closeCalls,               \* calls of JupyterClient.Close made
    fresh,                    \* a frame was taken since the last SendCommand
    provisions,               \* responses CreateTerminal got
    dialed,                   \* targets dialer.Dial was called with
    receives,                 \* calls of conn.ReadMessage made
    recvd, readErr,           \* frames ReadMessage returned; the error that ended it
    output,                   \* text ReadMessages printed
    log                       \* lines written by the log package

vars ==
    <<serverURL, termID, args, terminalID, conn, connOpen, mpc, exitCode, rpc,
      scans, typed, sends, closes, closeCalls, provisions, dialed, receives,
      recvd, readErr, output, log, fresh>>

mainVars == <<terminalID, conn, connOpen, mpc, exitCode, scans, typed, sends,
              closes, closeCalls, provisions, dialed>>
readVars == <<receives, recvd, readErr, output>>
flagVars == <<serverURL, termID, args>>

Nil == "nil"
TheConn == "conn"

\* the state after flag.Parse and NewJupyterClient (main.go:225-233)
Init ==
    /\ serverURL \in ServerURLs
    /\ termID \in TermIDs
    /\ args \in ArgLists
    /\ terminalID = <<>>
    /\ conn = Nil
    /\ connOpen = FALSE
    /\ mpc = "start"
    /\ exitCode = -1
    /\ rpc = "none"
    /\ scans = 0
    /\ typed = <<>>
    /\ sends = <<>>
    /\ closes = 0
    /\ closeCalls = 0
    /\ fresh = FALSE
    /\ provisions = <<>>
    /\ dialed = <<>>
    /\ receives = 0
    /\ recvd = <<>>
    /\ readErr = NoErr
    /\ output = <<>>
    /\ log = <<>>


(***************************************************************************)
(* The main line of execution.                                             *)
(***************************************************************************)
\* url.Parse / http.NewRequest accept the URL
ParseOK(u) == u # "%zz"
Scheme(u) == IF u = "http://localhost:8888" THEN "http" ELSE "https"

\* log.Fatalf: the line is logged and os.Exit(1) ends the process at once,
\* deferred calls are not run
Fatal(line) ==
    /\ log' = Append(log, line)
    /\ mpc' = "exited"
    /\ exitCode' = 1

\* value of result["name"] in the decoded body, Nil when there is none
NameField(body) ==
    IF \E i \in 1..Len(body.v) : body.v[i][1] = "name"
    THEN (body.v[CHOOSE i \in 1..Len(body.v) : body.v[i][1] = "name"])[2]
    ELSE JNull

\* CreateTerminalResult without the status test
CreateTerminalResultAnyStatus(url, resp) ==
    IF ~ParseOK(url) THEN [err |-> "parse", bound |-> FALSE, name |-> <<>>]
    ELSE IF resp.status = 0 THEN [err |-> "transport", bound |-> FALSE, name |-> <<>>]
    ELSE IF resp.body.t # "object"
    THEN [err |-> "decode", bound |-> FALSE, name |-> <<>>]
    ELSE IF NameField(resp.body).t # "string"
    THEN [err |-> "terminal ID not found in response", bound |-> FALSE, name |-> <<>>]
    ELSE [err |-> "", bound |-> TRUE, name |-> NameField(resp.body).v]

\* CreateTerminal (main.go:39-78) given the response to its POST: the error
\* it returns ("" for nil) and the terminal ID it binds
CreateTerminalResult(url, resp) ==
    IF ~ParseOK(url) THEN [err |-> "parse", bound |-> FALSE, name |-> <<>>]
    ELSE IF resp.status = 0 THEN [err |-> "transport", bound |-> FALSE, name |-> <<>>]
    ELSE IF resp.status # StatusOK /\ resp.status # StatusCreated
    THEN [err |-> "failed to create terminal", bound |-> FALSE, name |-> <<>>]
    ELSE IF resp.body.t # "object"
    THEN [err |-> "decode", bound |-> FALSE, name |-> <<>>]
    ELSE IF NameField(resp.body).t # "string"
    THEN [err |-> "terminal ID not found in response", bound |-> FALSE, name |-> <<>>]
    ELSE [err |-> "", bound |-> TRUE, name |-> NameField(resp.body).v]

\* main.go:236-238: -term was given
AttachTerminal ==
    /\ mpc = "start"
    /\ termID # <<>>
    /\ terminalID' = termID
    /\ mpc' = "connect"
    /\ UNCHANGED <<conn, connOpen, exitCode, scans, typed, sends, closes, closeCalls, provisions,
                   dialed, rpc, log>>
    /\ UNCHANGED <<readVars, flagVars, fresh>>

\* main calling CreateTerminal whether or not -term was given
CreateTerminalAlways(resp) ==
    /\ mpc = "start"
    /\ LET r == CreateTerminalResult(serverURL, resp) IN
        /\ provisions' = Append(provisions,
                                IF ParseOK(serverURL) THEN resp.status ELSE -1)
        /\ IF r.err # ""
           THEN /\ Fatal("Failed to create terminal")
                /\ UNCHANGED terminalID
           ELSE /\ terminalID' = IF termID # <<>> THEN termID ELSE r.name
                /\ mpc' = "connect"
                /\ UNCHANGED <<exitCode, log>>
    /\ UNCHANGED <<conn, connOpen, scans, typed, sends, closes, closeCalls, dialed, rpc>>
    /\ UNCHANGED <<readVars, flagVars, fresh>>

\* main.go:239-243: no -term, a terminal is created
CreateTerminal(resp) ==
    /\ mpc = "start"
    /\ termID = <<>>
    /\ LET r == CreateTerminalResult(serverURL, resp) IN
        /\ provisions' = Append(provisions,
                                IF ParseOK(serverURL) THEN resp.status ELSE -1)
        /\ IF r.err # ""
           THEN /\ Fatal("Failed to create terminal")
                /\ UNCHANGED terminalID
           ELSE /\ terminalID' = r.name
                /\ mpc' = "connect"
                /\ UNCHANGED <<exitCode, log>>
    /\ UNCHANGED <<conn, connOpen, scans, typed, sends, closes, closeCalls, dialed, rpc>>
    /\ UNCHANGED <<readVars, flagVars, fresh>>

\* the URL Connect dials (main.go:83-101)
DialTarget(url, id) ==
    [scheme |-> IF Scheme(url) = "https" THEN "wss" ELSE "ws",
     path |-> <<"/terminals/websocket/">> \o id]

\* main going on after a failed dial as after a successful one
ConnectIgnoreDialError(dialOK) ==
    /\ mpc = "connect"
    /\ IF ~ParseOK(serverURL)
       THEN /\ Fatal("Failed to connect")
            /\ UNCHANGED <<conn, connOpen, dialed, rpc>>
       ELSE /\ dialed' = Append(dialed, DialTarget(serverURL, terminalID))
            /\ conn' = IF dialOK THEN TheConn ELSE conn
            /\ connOpen' = dialOK
            /\ rpc' = IF dialOK THEN "spawned" ELSE rpc
            /\ mpc' = "run"
            /\ UNCHANGED <<exitCode, log>>
    /\ UNCHANGED <<terminalID, scans, typed, sends, closes, closeCalls, provisions>>
    /\ UNCHANGED <<readVars, flagVars, fresh>>

\* main.go:245-252: Connect, then defer Close and go ReadMessages
Connect(dialOK) ==
    /\ mpc = "connect"
    /\ IF ~ParseOK(serverURL)
       THEN /\ Fatal("Failed to connect")
            /\ UNCHANGED <<conn, connOpen, dialed, rpc>>
       ELSE /\ dialed' = Append(dialed, DialTarget(serverURL, terminalID))
            /\ IF dialOK
               THEN /\ conn' = TheConn
                    /\ connOpen' = TRUE
                    /\ rpc' = "spawned"
                    /\ mpc' = "run"
                    /\ UNCHANGED <<exitCode, log>>
               ELSE /\ Fatal("Failed to connect")
                    /\ UNCHANGED <<conn, connOpen, rpc>>
    /\ UNCHANGED <<terminalID, scans, typed, sends, closes, closeCalls, provisions>>
    /\ UNCHANGED <<readVars, flagVars, fresh>>

\* WithNewline appending whatever the command ends with
WithNewlineAlways(cmd) == cmd \o <<NL>>

\* SendCommand (main.go:159-172): the command with its newline
WithNewline(cmd) == IF ~HasSuffix(cmd, <<NL>>) THEN cmd \o <<NL>> ELSE cmd

\* the frame SendCommand hands to conn.WriteMessage
StdinFrame(cmd) == Marshal(<<STDIN, WithNewline(cmd)>>).data

\* outcomes of conn.WriteMessage: it cannot succeed on a closed connection
WriteOutcomes == IF connOpen THEN BOOLEAN ELSE {FALSE}

\* one call of SendCommand by `by`, whose write succeeds iff ok
SendCommand(cmd, by, ok) ==
    /\ sends' = Append(sends, [cmd |-> cmd, by |-> by, data |-> StdinFrame(cmd),
                               ok |-> ok])
    /\ fresh' = FALSE

\* main.go:255-262: single command mode
SingleCommand(ok) ==
    /\ mpc = "run"
    /\ Len(args) > 0
    /\ SendCommand(Join(args, <<" ">>), "single", ok)
    /\ IF ok
       THEN /\ mpc' = "teardown"
            /\ UNCHANGED <<exitCode, log>>
       ELSE Fatal("Failed to send command")
    /\ UNCHANGED <<terminalID, conn, connOpen, scans, typed, closes, closeCalls, provisions,
                   dialed, rpc>>
    /\ UNCHANGED <<readVars, flagVars>>

\* what scanner.Scan finds when standard input is closed: no line
EOF == <<"<EOF>">>

\* InteractiveShell (main.go:202-204): scanner.Scan finds standard input closed
InteractiveEOF ==
    /\ mpc = "run"
    /\ Len(args) = 0
    /\ scans' = scans + 1
    /\ typed' = Append(typed, EOF)
    /\ mpc' = "teardown"
    /\ UNCHANGED <<terminalID, conn, connOpen, exitCode, sends, closes, closeCalls,
                   provisions, dialed, rpc, log>>
    /\ UNCHANGED <<readVars, flagVars, fresh>>

\* InteractiveLine leaving the loop once ReadMessages has returned
InteractiveLineStopsWhenDone(cmd, ok) ==
    /\ mpc = "run"
    /\ Len(args) = 0
    /\ scans' = scans + 1
    /\ typed' = Append(typed, cmd)
    /\ IF cmd = EXIT
       THEN /\ mpc' = "teardown"
            /\ UNCHANGED <<sends, log, fresh>>
       ELSE /\ SendCommand(cmd, "interactive", ok)
            /\ IF ok
               THEN /\ mpc' = IF rpc = "done" THEN "teardown" ELSE mpc
                    /\ UNCHANGED log
               ELSE /\ log' = Append(log, "failed to send command")
                    /\ mpc' = "teardown"
    /\ UNCHANGED <<terminalID, conn, connOpen, exitCode, closes, closeCalls,
                   provisions, dialed, rpc>>
    /\ UNCHANGED <<readVars, flagVars>>

\* InteractiveLine forwarding the line exit like any other line
InteractiveLineForwardExit(cmd, ok) ==
    /\ mpc = "run"
    /\ Len(args) = 0
    /\ scans' = scans + 1
    /\ typed' = Append(typed, cmd)
    /\ SendCommand(cmd, "interactive", ok)
    /\ IF ok /\ cmd # EXIT
       THEN UNCHANGED <<mpc, log>>
       ELSE /\ log' = Append(log, "failed to send command")
            /\ mpc' = "teardown"
    /\ UNCHANGED <<terminalID, conn, connOpen, exitCode, closes, closeCalls,
                   provisions, dialed, rpc>>
    /\ UNCHANGED <<readVars, flagVars>>

\* InteractiveShell (main.go:198-221): one iteration that reads a line
InteractiveLine(cmd, ok) ==
    /\ mpc = "run"
    /\ Len(args) = 0
    /\ scans' = scans + 1
    /\ typed' = Append(typed, cmd)
    /\ IF cmd = EXIT
       THEN /\ mpc' = "teardown"
            /\ UNCHANGED <<sends, log, fresh>>
       ELSE /\ SendCommand(cmd, "interactive", ok)
            /\ IF ok
               THEN UNCHANGED <<mpc, log>>
               ELSE /\ log' = Append(log, "failed to send command")
                    /\ mpc' = "teardown"
    /\ UNCHANGED <<terminalID, conn, connOpen, exitCode, closes, closeCalls, provisions,
                   dialed, rpc>>
    /\ UNCHANGED <<readVars, flagVars>>

\* CloseBegin returning the error of a failed send without closing
CloseBeginReturnOnError(at, mid, done, ok) ==
    /\ mpc = at
    /\ closeCalls' = closeCalls + 1
    /\ IF conn # Nil
       THEN /\ SendCommand(EXIT, "close", ok)
            /\ mpc' = IF ok THEN mid ELSE done
       ELSE /\ mpc' = done
            /\ UNCHANGED <<sends, fresh>>
    /\ UNCHANGED <<terminalID, conn, connOpen, exitCode, scans, typed, closes,
                   provisions, dialed, rpc, log>>
    /\ UNCHANGED <<readVars, flagVars>>

\* Close (main.go:175-178) called with main at `at`: with a connection the
\* exit command is sent and its error dropped, and Close goes on at `mid`;
\* with none Close returns at once, main going on at `done`
CloseBegin(at, mid, done, ok) ==
    /\ mpc = at
    /\ closeCalls' = closeCalls + 1
    /\ IF conn # Nil
       THEN /\ SendCommand(EXIT, "close", ok)
            /\ mpc' = mid
       ELSE /\ mpc' = done
            /\ UNCHANGED <<sends, fresh>>
    /\ UNCHANGED <<terminalID, conn, connOpen, exitCode, scans, typed, closes,
                   provisions, dialed, rpc, log>>
    /\ UNCHANGED <<readVars, flagVars>>

\* Close (main.go:179-182): after the sleep the websocket is closed, whatever
\* the send returned and whether or not it was closed before; c.conn is kept
CloseFinish(mid, done) ==
    /\ mpc = mid
    /\ connOpen' = FALSE
    /\ closes' = closes + 1
    /\ mpc' = done
    /\ UNCHANGED <<terminalID, conn, exitCode, scans, typed, sends, closeCalls,
                   provisions, dialed, rpc, log>>
    /\ UNCHANGED <<readVars, flagVars, fresh>>

\* main returns (main.go:269) from `at`: the process ends and the goroutine
\* with it
Return(at) ==
    /\ mpc = at
    /\ mpc' = "exited"
    /\ exitCode' = 0
    /\ UNCHANGED <<terminalID, conn, connOpen, scans, typed, sends, closes,
                   closeCalls, provisions, dialed, rpc, log>>
    /\ UNCHANGED <<readVars, flagVars, fresh>>

\* the Close deferred by main (main.go:249), first half
CloseSendExit(ok) == CloseBegin("teardown", "closing", "returned", ok)

\* the Close deferred by main, second half
CloseConn == CloseFinish("closing", "returned")

\* main returns after its deferred Close
ProcessExit == Return("returned")

\* a caller of JupyterClient calls Close on a client it has not connected
CloseUnconnected ==
    /\ closeCalls = 0
    /\ CloseBegin("connect", "connect", "connect", FALSE)

\* a caller of JupyterClient calls Close again once Close has returned
CloseAgainSendExit(ok) ==
    /\ closeCalls = 1
    /\ CloseBegin("returned", "closing again", "returned again", ok)

\* the second half of that second call
CloseAgainConn == CloseFinish("closing again", "returned again")

\* the caller returns after the second call
ExitAfterCloseAgain == Return("returned again")


(***************************************************************************)
(* The ReadMessages goroutine.                                             *)
(***************************************************************************)
\* websocket.IsUnexpectedCloseError(err, CloseGoingAway, CloseAbnormalClosure):
\* a close error whose code is not one of the expected codes
IsUnexpectedCloseError(err) ==
    /\ err.t = "close"
    /\ err.code \notin {CloseGoingAway, CloseAbnormalClosure}

\* HandleMessage with fmt.Println in place of fmt.Print
HandleMessagePrintln(message) ==
    LET d == Unmarshal(message)
        msg == d.msg
    IN  IF d.err
        THEN [out |-> <<>>, log |-> <<"failed to parse message">>, stop |-> FALSE]
        ELSE IF Len(msg) < 2 \/ msg[1].t # "string"
        THEN [out |-> <<>>, log |-> <<>>, stop |-> FALSE]
        ELSE IF msg[1].v = STDOUT
        THEN [out |-> IF msg[2].t = "string" THEN msg[2].v \o <<NL>> ELSE <<>>,
              log |-> <<>>, stop |-> FALSE]
        ELSE IF msg[1].v = SETUP
        THEN [out |-> <<>>, log |-> <<"Terminal ready">>, stop |-> FALSE]
        ELSE IF msg[1].v = DISCONNECT
        THEN [out |-> <<>>, log |-> <<"Terminal disconnected">>, stop |-> TRUE]
        ELSE [out |-> <<>>, log |-> <<>>, stop |-> FALSE]

\* HandleMessage with the length test len(msg) < 1
HandleMessageShort(message) ==
    LET d == Unmarshal(message)
        msg == d.msg
    IN  IF d.err
        THEN [out |-> <<>>, log |-> <<"failed to parse message">>, stop |-> FALSE]
        ELSE IF Len(msg) < 1 \/ msg[1].t # "string"
        THEN [out |-> <<>>, log |-> <<>>, stop |-> FALSE]
        ELSE IF msg[1].v = STDOUT
        THEN [out |-> IF Len(msg) >= 2 /\ msg[2].t = "string"
                      THEN msg[2].v ELSE <<>>,
              log |-> <<>>, stop |-> FALSE]
        ELSE IF msg[1].v = SETUP
        THEN [out |-> <<>>, log |-> <<"Terminal ready">>, stop |-> FALSE]
        ELSE IF msg[1].v = DISCONNECT
        THEN [out |-> <<>>, log |-> <<"Terminal disconnected">>, stop |-> TRUE]
        ELSE [out |-> <<>>, log |-> <<>>, stop |-> FALSE]

\* HandleMessage with a break that leaves only the switch on disconnect
HandleMessageBreakSwitch(message) ==
    LET d == Unmarshal(message)
        msg == d.msg
    IN  IF d.err
        THEN [out |-> <<>>, log |-> <<"failed to parse message">>, stop |-> FALSE]
        ELSE IF Len(msg) < 2 \/ msg[1].t # "string"
        THEN [out |-> <<>>, log |-> <<>>, stop |-> FALSE]
        ELSE IF msg[1].v = STDOUT
        THEN [out |-> IF msg[2].t = "string" THEN msg[2].v ELSE <<>>,
              log |-> <<>>, stop |-> FALSE]
        ELSE IF msg[1].v = SETUP
        THEN [out |-> <<>>, log |-> <<"Terminal ready">>, stop |-> FALSE]
        ELSE IF msg[1].v = DISCONNECT
        THEN [out |-> <<>>, log |-> <<"Terminal disconnected">>, stop |-> FALSE]
        ELSE [out |-> <<>>, log |-> <<>>, stop |-> FALSE]

\* HandleMessage leaving the loop on a frame that does not parse
HandleMessageParseStops(message) ==
    LET d == Unmarshal(message)
        msg == d.msg
    IN  IF d.err
        THEN [out |-> <<>>, log |-> <<"failed to parse message">>, stop |-> TRUE]
        ELSE IF Len(msg) < 2 \/ msg[1].t # "string"
        THEN [out |-> <<>>, log |-> <<>>, stop |-> FALSE]
        ELSE IF msg[1].v = STDOUT
        THEN [out |-> IF msg[2].t = "string" THEN msg[2].v ELSE <<>>,
              log |-> <<>>, stop |-> FALSE]
        ELSE IF msg[1].v = SETUP
        THEN [out |-> <<>>, log |-> <<"Terminal ready">>, stop |-> FALSE]
        ELSE IF msg[1].v = DISCONNECT
        THEN [out |-> <<>>, log |-> <<"Terminal disconnected">>, stop |-> TRUE]
        ELSE [out |-> <<>>, log |-> <<>>, stop |-> FALSE]

\* HandleMessage printing the payload of stdout whatever its type
HandleMessagePrintAny(message) ==
    LET d == Unmarshal(message)
        msg == d.msg
    IN  IF d.err
        THEN [out |-> <<>>, log |-> <<"failed to parse message">>, stop |-> FALSE]
        ELSE IF Len(msg) < 2 \/ msg[1].t # "string"
        THEN [out |-> <<>>, log |-> <<>>, stop |-> FALSE]
        ELSE IF msg[1].v = STDOUT
        THEN [out |-> IF msg[2].t = "string" THEN msg[2].v ELSE <<"1">>,
              log |-> <<>>, stop |-> FALSE]
        ELSE IF msg[1].v = SETUP
        THEN [out |-> <<>>, log |-> <<"Terminal ready">>, stop |-> FALSE]
        ELSE IF msg[1].v = DISCONNECT
        THEN [out |-> <<>>, log |-> <<"Terminal disconnected">>, stop |-> TRUE]
        ELSE [out |-> <<>>, log |-> <<>>, stop |-> FALSE]

\* ReadMessages (main.go:129-155), the loop body after a successful read:
\* the text printed, the lines logged, and whether the loop is left
HandleMessage(message) ==
    LET d == Unmarshal(message)
        msg == d.msg
    IN  IF d.err
        THEN [out |-> <<>>, log |-> <<"failed to parse message">>, stop |-> FALSE]
        ELSE IF Len(msg) < 2
        THEN [out |-> <<>>, log |-> <<>>, stop |-> FALSE]
        ELSE IF msg[1].t # "string"
        THEN [out |-> <<>>, log |-> <<>>, stop |-> FALSE]
        ELSE IF msg[1].v = STDOUT
        THEN [out |-> IF msg[2].t = "string" THEN msg[2].v ELSE <<>>,
              log |-> <<>>, stop |-> FALSE]
        ELSE IF msg[1].v = SETUP
        THEN [out |-> <<>>, log |-> <<"Terminal ready">>, stop |-> FALSE]
        ELSE IF msg[1].v = DISCONNECT
        THEN [out |-> <<>>, log |-> <<"Terminal disconnected">>, stop |-> TRUE]
        ELSE [out |-> <<>>, log |-> <<>>, stop |-> FALSE]

\* HandleReadError logging every error
HandleReadErrorAll(err) == <<"websocket error">>

\* ReadMessages (main.go:122-127), a failed read: the lines logged
HandleReadError(err) ==
    IF IsUnexpectedCloseError(err) THEN <<"websocket error">> ELSE <<>>

\* the goroutine started at main.go:252 gets to run and makes its first read
ReadStart ==
    /\ rpc = "spawned"
    /\ mpc # "exited"
    /\ rpc' = "recv"
    /\ receives' = receives + 1
    /\ UNCHANGED <<recvd, readErr, output, log>>
    /\ UNCHANGED <<mainVars, flagVars, fresh>>

\* ReadFrame answering every frame with a write of its own
ReadFramePong(message) ==
    /\ rpc = "recv"
    /\ mpc # "exited"
    /\ recvd' = Append(recvd, message)
    /\ sends' = Append(sends, [cmd |-> <<>>, by |-> "reader",
                               data |-> StdinFrame(<<>>), ok |-> connOpen])
    /\ LET h == HandleMessage(message) IN
        /\ output' = output \o h.out
        /\ log' = log \o h.log
        /\ IF h.stop
           THEN /\ rpc' = "done"
                /\ UNCHANGED receives
           ELSE /\ rpc' = "recv"
                /\ receives' = receives + 1
    /\ fresh' = TRUE
    /\ UNCHANGED readErr
    /\ UNCHANGED <<terminalID, conn, connOpen, mpc, exitCode, scans, typed,
                   closes, closeCalls, provisions, dialed, flagVars>>

\* ReadFrame printing nothing once Close has sent the exit command
ReadFrameMuted(message) ==
    /\ rpc = "recv"
    /\ mpc # "exited"
    /\ recvd' = Append(recvd, message)
    /\ LET h == HandleMessage(message) IN
        /\ output' = IF \E i \in 1..Len(sends) : sends[i].by = "close"
                     THEN output ELSE output \o h.out
        /\ log' = log \o h.log
        /\ IF h.stop
           THEN /\ rpc' = "done"
                /\ UNCHANGED receives
           ELSE /\ rpc' = "recv"
                /\ receives' = receives + 1
    /\ fresh' = TRUE
    /\ UNCHANGED readErr
    /\ UNCHANGED <<mainVars, flagVars>>

\* conn.ReadMessage returns a frame: one iteration of the loop, up to the
\* next call of ReadMessage or to the return
ReadFrame(message) ==
    /\ rpc = "recv"
    /\ mpc # "exited"
    /\ recvd' = Append(recvd, message)
    /\ LET h == HandleMessage(message) IN
        /\ output' = output \o h.out
        /\ log' = log \o h.log
        /\ IF h.stop
           THEN /\ rpc' = "done"
                /\ UNCHANGED receives
           ELSE /\ rpc' = "recv"
                /\ receives' = receives + 1
    /\ fresh' = TRUE
    /\ UNCHANGED readErr
    /\ UNCHANGED <<mainVars, flagVars>>

\* conn.ReadMessage returns an error: the loop is left.  A network error is
\* what a read returns once Close has closed the connection
ReadError(err) ==
    /\ rpc = "recv"
    /\ mpc # "exited"
    /\ connOpen \/ err = NetErr
    /\ readErr' = err
    /\ log' = log \o HandleReadError(err)
    /\ rpc' = "done"
    /\ UNCHANGED <<receives, recvd, output>>
    /\ UNCHANGED <<mainVars, flagVars, fresh>>

(***************************************************************************)
(* Specifications.                                                         *)
(***************************************************************************)
MainStep ==
    \/ AttachTerminal
    \/ \E resp \in HTTPResponses : CreateTerminal(resp)
    \/ \E dialOK \in BOOLEAN : Connect(dialOK)
    \/ \E ok \in WriteOutcomes : SingleCommand(ok)
    \/ InteractiveEOF
    \/ \E cmd \in Lines, ok \in WriteOutcomes :
          scans < MaxLines /\ InteractiveLine(cmd, ok)
    \/ \E ok \in WriteOutcomes : CloseSendExit(ok)
    \/ CloseConn
    \/ ProcessExit

\* the whole program, every command line and every server
Next ==
    \/ MainStep
    \/ ReadStart
    \/ \E message \in Frames : Len(recvd) < MaxFrames /\ ReadFrame(message)
    \/ \E err \in ReadErrors : ReadError(err)

Spec == Init /\ [][Next]_vars


\* the program attached to a terminal with standard input closed
\* (jupyter-terminal -term 7 < /dev/null), every server
InitRelay ==
    /\ Init
    /\ serverURL = "http://localhost:8888"
    /\ termID = <<"7">>
    /\ args = <<>>

NextRelay ==
    \/ AttachTerminal
    \/ \E dialOK \in BOOLEAN : Connect(dialOK)
    \/ InteractiveEOF
    \/ \E ok \in WriteOutcomes : CloseSendExit(ok)
    \/ CloseConn
    \/ ProcessExit
    \/ ReadStart
    \/ \E message \in Frames :
          Len(recvd) < MaxRelayFrames /\ ReadFrame(message)
    \/ \E err \in ReadErrors : ReadError(err)

SpecRelay == InitRelay /\ [][NextRelay]_vars

\* the scripted connections: setup, two outputs, then a disconnect frame
\* with no payload element or with one
ScriptBare ==
    <<JArr(<<JStr(SETUP)>>),
      JArr(<<JStr(STDOUT), JStr(<<"a", NL>>)>>),
      JArr(<<JStr(STDOUT), JStr(<<"b", NL>>)>>),
      JArr(<<JStr(DISCONNECT)>>)>>
ScriptPayload ==
    <<JArr(<<JStr(SETUP)>>),
      JArr(<<JStr(STDOUT), JStr(<<"a", NL>>)>>),
      JArr(<<JStr(STDOUT), JStr(<<"b", NL>>)>>),
      JArr(<<JStr(DISCONNECT), JNum(1)>>)>>
Scripts == {ScriptBare, ScriptPayload}

\* the whole program against a server that sends one of the scripts and then
\* nothing; a read fails only once Close has closed the connection
NextScript ==
    \/ MainStep
    \/ ReadStart
    \/ \E script \in Scripts :
          /\ Len(recvd) < Len(script)
          /\ SubSeq(script, 1, Len(recvd)) = recvd
          /\ ReadFrame(script[Len(recvd) + 1])
    \/ ~connOpen /\ ReadError(NetErr)

SpecScript == Init /\ [][NextScript]_vars

\* JupyterClient under a caller that does what main does and may also call
\* Close before Connect, and once more after Close has returned
InitClient ==
    /\ Init
    /\ serverURL = "http://localhost:8888"
    /\ termID = <<"7">>

NextClient ==
    \/ AttachTerminal
    \/ CloseUnconnected
    \/ \E dialOK \in BOOLEAN : Connect(dialOK)
    \/ \E ok \in WriteOutcomes : SingleCommand(ok)
    \/ InteractiveEOF
    \/ \E cmd \in Lines, ok \in WriteOutcomes :
          scans < MaxLines /\ InteractiveLine(cmd, ok)
    \/ \E ok \in WriteOutcomes : CloseSendExit(ok)
    \/ CloseConn
    \/ ProcessExit
    \/ \E ok \in WriteOutcomes : CloseAgainSendExit(ok)
    \/ CloseAgainConn
    \/ ExitAfterCloseAgain
    \/ ReadStart
    \/ \E message \in Frames : Len(recvd) < MaxFrames /\ ReadFrame(message)
    \/ \E err \in ReadErrors : ReadError(err)

SpecClient == InitClient /\ [][NextClient]_vars


(***************************************************************************)
(* What the claims speak of.                                               *)
(***************************************************************************)
Last(s) == s[Len(s)]
Count(s, x) == Cardinality({i \in 1..Len(s) : s[i] = x})

\* the frame decodes
Decodes(frame) == ~Unmarshal(frame).err
\* the frame decodes to a message with fewer than two elements
IsShort(frame) == Decodes(frame) /\ Len(Unmarshal(frame).msg) < 2
\* the frame decodes to a message of at least two elements whose type tag
\* is the text `type`
IsMessageOf(frame, type) ==
    /\ Decodes(frame)
    /\ Len(Unmarshal(frame).msg) >= 2
    /\ Unmarshal(frame).msg[1] = JStr(type)
\* the text an output-data frame carries, empty for every other frame
TextPayload(frame) ==
    IF IsMessageOf(frame, STDOUT) /\ Unmarshal(frame).msg[2].t = "string"
    THEN Unmarshal(frame).msg[2].v
    ELSE <<>>
RECURSIVE ConcatPayloads(_)
ConcatPayloads(frames) ==
    IF frames = <<>> THEN <<>>
    ELSE TextPayload(Head(frames)) \o ConcatPayloads(Tail(frames))

OutputAB == <<"a", NL, "b", NL>>

\* C1 as stated: after the frames ["setup"], ["stdout","a\n"],
\* ["stdout","b\n"], ["disconnect"] the receive loop has written exactly
\* "a\nb\n" and has terminated after the fourth frame, with four receives made.
C1_TerminatesOnBareDisconnect ==
    recvd = ScriptBare =>
        /\ output = OutputAB
        /\ rpc = "done"
        /\ receives = 4

\* C1 as amended: after setup and the two outputs, "a\nb\n" is what has been
\* written; a fourth frame ["disconnect", 1] terminates the loop with four
\* receives made, a fourth frame ["disconnect"] is dropped and a fifth
\* receive is made.
C1_ScriptedRelay ==
    /\ recvd = ScriptPayload =>
          /\ output = OutputAB
          /\ rpc = "done"
          /\ receives = 4
          /\ readErr = NoErr
    /\ recvd = ScriptBare =>
          /\ output = OutputAB
          /\ receives = 5
          /\ readErr = NoErr => rpc = "recv"

C1_Witness ==
    /\ recvd = ScriptPayload
    /\ rpc = "done"
    /\ output = OutputAB

\* C2: a step in which the receive loop takes a frame that decodes to a
\* message of fewer than two elements writes no output, logs nothing, leaves
\* the loop Running and makes the next receive.
C2_ShortMessageDropped ==
    [][\A frame \in Frames :
          (recvd' = Append(recvd, frame) /\ IsShort(frame)) =>
              /\ output' = output
              /\ log' = log
              /\ readErr' = readErr
              /\ rpc' = "recv"
              /\ receives' = receives + 1]_vars

C2_Witness ==
    /\ recvd # <<>>
    /\ Last(recvd) = JArr(<<JStr(DISCONNECT)>>)
    /\ rpc = "recv"
    /\ receives = Len(recvd) + 1
    /\ output = <<>>
    /\ log = <<>>

\* C3: when the last frame taken is a disconnect signal the loop is
\* Terminated with no receive outstanding, and from Terminated on the loop
\* takes no step: no receive is made, no frame is taken, nothing is written.
C3_DisconnectTerminates ==
    /\ []((recvd # <<>> /\ IsMessageOf(Last(recvd), DISCONNECT)) =>
              (rpc = "done" /\ receives = Len(recvd)))
    /\ [][rpc = "done" =>
              /\ rpc' = "done"
              /\ receives' = receives
              /\ recvd' = recvd
              /\ readErr' = readErr
              /\ output' = output]_vars

C3_Witness ==
    /\ recvd # <<>>
    /\ IsMessageOf(Last(recvd), DISCONNECT)
    /\ rpc = "done"
    /\ mpc = "closing"

C5_MalformedFrameDropped ==
    /\ output = ConcatPayloads(SelectSeq(recvd, Decodes))
    /\ (recvd # <<>> /\ ~Decodes(Last(recvd)) /\ readErr = NoErr) =>
          (rpc = "recv" /\ receives = Len(recvd) + 1)
    /\ (rpc = "done" /\ readErr = NoErr) =>
          /\ SelectSeq(recvd, Decodes) # <<>>
          /\ IsMessageOf(Last(SelectSeq(recvd, Decodes)), DISCONNECT)

C5_Witness ==
    /\ Len(recvd) = 3
    /\ recvd[1] = Garbage
    /\ recvd[2] = JArr(<<JStr(STDOUT), JStr(<<"a", NL>>)>>)
    /\ recvd[3] = JArr(<<JStr(DISCONNECT), JNum(1)>>)
    /\ output = <<"a", NL>>
    /\ rpc = "done"

\* C6: the output written is the concatenation, in receive order, of the
\* text payloads of the output-data frames taken; a frame that is not a
\* disconnect signal never terminates the loop, and only frames that do not
\* decode are logged as errors.
C6_OutputIsPayloads ==
    /\ output = ConcatPayloads(recvd)
    /\ (rpc = "done" /\ readErr = NoErr) =>
          (recvd # <<>> /\ IsMessageOf(Last(recvd), DISCONNECT))
    /\ (rpc = "recv" /\ recvd # <<>>) => ~IsMessageOf(Last(recvd), DISCONNECT)
    /\ Count(log, "failed to parse message") =
          Cardinality({i \in 1..Len(recvd) : ~Decodes(recvd[i])})

C6_Witness ==
    /\ Len(recvd) = 3
    /\ recvd[1] = JArr(<<JStr(STDOUT), JStr(<<"b", NL>>)>>)
    /\ recvd[2] = JArr(<<JStr(STDOUT), JNum(1)>>)
    /\ recvd[3] = JArr(<<JStr(STDOUT), JStr(<<"a", NL>>)>>)
    /\ output = <<"b", NL, "a", NL>>
    /\ rpc = "recv"


\* the text holds no byte that is not UTF-8
IsText(t) == \A i \in 1..Len(t) : t[i] # BadByte
EndsWithNewline(t) == Len(t) > 0 /\ t[Len(t)] = NL
\* the text, newline-terminated
NewlineTerminated(t) == IF EndsWithNewline(t) THEN t ELSE t \o <<NL>>
\* the input-data message carrying the text
StdinMessage(t) == JArr(<<JStr(STDIN), JStr(t)>>)
\* the words, a space between each two
RECURSIVE SpaceJoined(_)
SpaceJoined(words) ==
    IF Len(words) = 0 THEN <<>>
    ELSE IF Len(words) = 1 THEN words[1]
    ELSE SpaceJoined(SubSeq(words, 1, Len(words) - 1))
             \o <<" ">> \o words[Len(words)]
BySingle(s) == s.by = "single"
ByInteractive(s) == s.by = "interactive"

\* C7: every call of SendCommand with a text t writes the one message
\* ["stdin", t'] where t' is t when t ends with a newline and t plus a newline
\* otherwise; "ls" and "ls\n" are both written as ["stdin", "ls\n"].
C7_SendAppendsNewlineOnce ==
    \A i \in 1..Len(sends) :
        /\ IsText(sends[i].cmd) =>
              sends[i].data = StdinMessage(NewlineTerminated(sends[i].cmd))
        /\ sends[i].cmd \in {<<"l", "s">>, <<"l", "s", NL>>} =>
              sends[i].data = StdinMessage(<<"l", "s", NL>>)

C7_Witness ==
    \E i, j \in 1..Len(sends) :
        /\ sends[i].cmd = <<"l", "s", NL>>
        /\ sends[i].data = StdinMessage(<<"l", "s", NL>>)
        /\ sends[j].cmd = EXIT
        /\ sends[j].data = StdinMessage(<<"e", "x", "i", "t", NL>>)

\* C8: when -term names a terminal, CreateTerminal is never called, at most
\* one connection is dialed and it is dialed for that terminal.
C8_AttachSkipsProvisioning ==
    termID # <<>> =>
        /\ provisions = <<>>
        /\ Len(dialed) <= 1
        /\ \A i \in 1..Len(dialed) :
              dialed[i].path = <<"/terminals/websocket/">> \o termID
        /\ conn # Nil => (Len(dialed) = 1 /\ terminalID = termID)

C8_Witness ==
    /\ termID = <<"7">>
    /\ conn # Nil
    /\ dialed = <<[scheme |-> "ws", path |-> <<"/terminals/websocket/", "7">>]>>
    /\ exitCode = 0

\* C9: with positional arguments, standard input is never scanned and the
\* only command sent before teardown is one message carrying the arguments
\* joined by single spaces, newline-terminated; ["git", "status"] is sent
\* as ["stdin", "git status\n"].
C9_SingleShot ==
    Len(args) > 0 =>
        /\ scans = 0
        /\ SelectSeq(sends, ByInteractive) = <<>>
        /\ Len(SelectSeq(sends, BySingle)) <= 1
        /\ (mpc \in {"teardown", "closing", "returned"} \/ exitCode = 0) =>
              Len(SelectSeq(sends, BySingle)) = 1
        /\ \A i \in 1..Len(sends) :
              sends[i].by = "single" =>
                  /\ i = 1
                  /\ sends[i].cmd = SpaceJoined(args)
                  /\ IsText(SpaceJoined(args)) =>
                        sends[i].data =
                            StdinMessage(NewlineTerminated(SpaceJoined(args)))
                  /\ args = << <<"g", "i", "t">>,
                               <<"s", "t", "a", "t", "u", "s">> >> =>
                        sends[i].data =
                            StdinMessage(<<"g", "i", "t", " ", "s", "t", "a",
                                           "t", "u", "s", NL>>)

C9_Witness ==
    /\ args = << <<"g", "i", "t">>, <<"s", "t", "a", "t", "u", "s">> >>
    /\ exitCode = 0
    /\ scans = 0
    /\ Len(sends) = 2
    /\ sends[1].ok
    /\ sends[1].data = StdinMessage(<<"g", "i", "t", " ", "s", "t", "a", "t",
                                      "u", "s", NL>>)
    /\ sends[2].by = "close"

\* C10: when the POST is answered with a status other than 200 and 201 the
\* process ends with exit code 1 and no connection was dialed, no terminal
\* ID was bound, nothing was sent and no goroutine was started.
C10_ProvisionFailureAborts ==
    (provisions # <<>> /\ provisions[1] >= 100
        /\ provisions[1] \notin {200, 201}) =>
        /\ mpc = "exited"
        /\ exitCode = 1
        /\ dialed = <<>>
        /\ conn = Nil
        /\ terminalID = <<>>
        /\ sends = <<>>
        /\ closes = 0
        /\ rpc = "none"

C10_Witness ==
    /\ provisions = <<500>>
    /\ mpc = "exited"
    /\ exitCode = 1
    /\ dialed = <<>>

\* the calls of SendCommand made by Close
ByClose(s) == SelectSeq(s, LAMBDA e : e.by = "close")

\* C11 (as claimed): when Close is called twice on the same client, the two
\* calls together send, or try to send, the exit command at most once.
C11_SecondCloseSendsNothing ==
    closeCalls = 2 => Len(ByClose(sends)) <= 1

\* C12 (as claimed): whenever Connect succeeded, Close has run by the time
\* the process ends, however single command mode or the interactive loop
\* ended.
C12_TeardownAlwaysRuns ==
    (mpc = "exited" /\ conn # Nil) => closeCalls >= 1

\* the commands of a sequence of sends
Cmds(s) == [i \in 1..Len(s) |-> s[i].cmd]

\* the lines among what scanner.Scan found that are not the word exit
Forwardable(t) == SelectSeq(t, LAMBDA l : l # EXIT /\ l # EOF)

\* C13: in interactive mode the line exit ends the loop and is not sent; the
\* lines read before it are sent once each, in the order read; and the only
\* exit command written to the connection is the one Close sends.
C13_ExitIntercepted ==
    args = <<>> =>
        /\ Cmds(SelectSeq(sends, ByInteractive)) = Forwardable(typed)
        /\ \A i \in 1..Len(typed) : typed[i] = EXIT => i = Len(typed)
        /\ (typed # <<>> /\ Last(typed) = EXIT) => mpc # "run"
        /\ \A i \in 1..Len(sends) :
              sends[i].data = StdinMessage(EXIT \o <<NL>>) => sends[i].by = "close"

C13_Witness ==
    /\ Len(typed) >= 2
    /\ Last(typed) = EXIT
    /\ Cmds(SelectSeq(sends, ByInteractive)) = SubSeq(typed, 1, Len(typed) - 1)
    /\ Len(ByClose(sends)) = 1
    /\ mpc = "exited"

\* Close is between its exit send and its conn.Close
InsideClose == mpc \in {"closing", "closing again"}

\* C14: with a connection, Close sends the exit command and only then closes
\* the connection, so no conn.Close comes before its exit send; a failed
\* exit send is dropped and the connection is closed all the same, the
\* process still ending normally; with no connection Close sends nothing and
\* closes nothing.
C14_TeardownOrder ==
    /\ Len(ByClose(sends)) = closes + (IF InsideClose THEN 1 ELSE 0)
    /\ (mpc = "exited" /\ ByClose(sends) # <<>>) => exitCode = 0
    /\ conn = Nil => (ByClose(sends) = <<>> /\ closes = 0)
    /\ closeCalls >= closes

C14_Witness ==
    /\ closeCalls = 2
    /\ Len(ByClose(sends)) = 1
    /\ ~ByClose(sends)[1].ok
    /\ closes = 1
    /\ mpc = "exited"

\* C15 (as claimed): Connect dials at most once, and by the time the process
\* ends a connection that was made has been closed exactly once.
C15_ConnectionTornDownOnce ==
    /\ Len(dialed) <= 1
    /\ (mpc = "exited" /\ conn # Nil) => closes = 1

\* C16 (as claimed): no frame received after Close has sent the exit command
\* adds anything to the local output.
C16_NothingWrittenAfterExitSend ==
    [][(ByClose(sends) # <<>> /\ recvd' # recvd) => output' = output]_vars

\* C16 (amended): a frame received after Close has sent the exit command and
\* before the process ends is handled like any other, an output-data frame
\* adding its text to the local output; once the process has ended nothing
\* is received or written.
C16_OutputLostOnlyAfterExit ==
    /\ [][(ByClose(sends) # <<>> /\ recvd' # recvd) =>
            output' = output \o TextPayload(Last(recvd'))]_vars
    /\ [][mpc = "exited" => (recvd' = recvd /\ output' = output)]_vars

C16_Witness ==
    /\ ByClose(sends) # <<>>
    /\ fresh
    /\ TextPayload(Last(recvd)) # <<>>
    /\ output = ConcatPayloads(recvd)

\* ReadMessages returned because of a disconnect message or a failed read
ReaderStoppedByPeer ==
    rpc = "done" =>
        \/ readErr # NoErr
        \/ recvd # <<>> /\ IsMessageOf(Last(recvd), DISCONNECT)

\* the interactive loop has been left
InputLoopLeft == args = <<>> /\ conn # Nil /\ mpc # "run"

\* the last line read was handed to SendCommand and its write failed
LastSendFailed ==
    /\ SelectSeq(sends, ByInteractive) # <<>>
    /\ ~Last(SelectSeq(sends, ByInteractive)).ok
    /\ Last(SelectSeq(sends, ByInteractive)).cmd = Last(typed)

\* C17 (as claimed): ReadMessages returns only on a disconnect message or a
\* failed read, and the interactive loop is left only on the line exit or
\* the end of standard input.
C17_LoopsStopOnlyAsClaimed ==
    /\ ReaderStoppedByPeer
    /\ InputLoopLeft => (typed # <<>> /\ Last(typed) \in {EXIT, EOF})

\* C17 (amended): ReadMessages returns only on a disconnect message or a
\* failed read; the interactive loop is left only on the line exit, the end
\* of standard input or a failed send, so never because ReadMessages has
\* returned: main goes on reading lines and sending them.
C17_NoCancellation ==
    /\ ReaderStoppedByPeer
    /\ InputLoopLeft =>
          /\ typed # <<>>
          /\ Last(typed) \in {EXIT, EOF} \/ LastSendFailed

C17_Witness ==
    /\ rpc = "done"
    /\ readErr = NoErr
    /\ ~fresh
    /\ mpc = "run"
    /\ sends # <<>>
    /\ Last(sends).by = "interactive"
    /\ Last(sends).ok

\* the line is in the log
Logged(line) == \E i \in 1..Len(log) : log[i] = line

\* C18 (as claimed): when CreateTerminal fails no terminal ID is bound and
\* nothing is dialed, and no connection is opened with an empty terminal ID
\* that CreateTerminal produced.
C18_NoEmptyIdentifier ==
    termID = <<>> =>
        /\ Logged("Failed to create terminal") =>
              (terminalID = <<>> /\ dialed = <<>> /\ conn = Nil)
        /\ conn # Nil =>
              (terminalID # <<>> /\ dialed[1].path # <<"/terminals/websocket/">>)

\* the terminal ID was given by -term or bound by a successful CreateTerminal
IdentifierBound ==
    \/ termID # <<>> /\ terminalID = termID
    \/ /\ termID = <<>>
       /\ provisions # <<>>
       /\ Last(provisions) \in {StatusOK, StatusCreated}

\* C19: the terminal ID is bound before Connect dials, Connect has succeeded
\* before the ReadMessages goroutine is started, and the goroutine is started
\* before the first SendCommand; nothing is sent, received or closed while
\* the client has no connection; a failed Connect ends the run with no
\* goroutine started and nothing sent.
C19_StartupOrder ==
    /\ dialed # <<>> => IdentifierBound
    /\ conn # Nil => (Len(dialed) = 1 /\ rpc # "none")
    /\ rpc # "none" => conn # Nil
    /\ sends # <<>> => rpc # "none"
    /\ conn = Nil => (sends = <<>> /\ receives = 0 /\ recvd = <<>> /\ closes = 0)
    /\ Logged("Failed to connect") =>
          /\ conn = Nil /\ rpc = "none" /\ sends = <<>>
          /\ mpc = "exited" /\ exitCode = 1

C19_Witness ==
    /\ termID = <<>>
    /\ Len(provisions) = 1
    /\ Len(dialed) = 1
    /\ rpc = "recv"
    /\ receives >= 1
    /\ sends # <<>>
    /\ sends[1].ok

\* what ReadMessages changes
readerState == <<rpc, receives, recvd, readErr, output>>

\* a step that writes is not a step of ReadMessages and writes one message
WritesByMainOnly ==
    /\ (sends' # sends) =>
          /\ Len(sends') = Len(sends) + 1
          /\ SubSeq(sends', 1, Len(sends)) = sends
          /\ readerState' = readerState
    /\ (readerState' # readerState) => (sends' = sends)

\* C20: every write on the connection is made by main, from single command
\* mode, the interactive loop or Close; a step of ReadMessages writes
\* nothing; a step writes at most one message, so no two writes are in
\* progress together; and a write is made while ReadMessages is inside a
\* read.
C20_SingleWriter ==
    /\ [](\A i \in 1..Len(sends) :
              sends[i].by \in {"single", "interactive", "close"})
    /\ [][WritesByMainOnly]_vars

C20_Witness ==
    /\ rpc = "recv"
    /\ recvd # <<>>
    /\ ~fresh
    /\ sends # <<>>
    /\ Last(sends).ok
    /\ connOpen

====
